---- MODULE Spec2Model ----
(***************************************************************************)
(* A model of the HindiBPE tokenizer (src/src/hindi_bpe.py) and of the     *)
(* callers that use it (src/src/train_bpe.py, src/app.py).                 *)
(*                                                                         *)
(* A character is its Unicode code point, a string is a sequence of code   *)
(* points, a Python dict is a function and a Python list is a sequence.    *)
(* A float that the program computes as a quotient of two integers is the  *)
(* pair <<numerator, denominator>>.                                        *)
(***************************************************************************)
EXTENDS Integers, Sequences, FiniteSets, TLC

(***************************************************************************)
(* Python built-ins the tokenizer uses.                                    *)
(***************************************************************************)

\* str.isspace() of one character: the code points str.split() and
\* str.strip() treat as whitespace.
IsSpace(c) ==
    c \in (9..13) \cup (28..32) \cup {133, 160, 5760} \cup (8192..8202)
          \cup {8232, 8233, 8239, 8287, 12288}

\* bool(text.strip()) is False: the text is empty or all whitespace.
IsBlank(s) == \A k \in 1..Len(s) : IsSpace(s[k])

\* text.split(): the maximal runs of non-whitespace characters, in order. A
\* word starts where a non-whitespace character follows the start of the
\* text or a whitespace character, and runs to the last character before
\* the next whitespace character or the end.
split(s) ==
    LET starts == {k \in 1..Len(s) : ~IsSpace(s[k]) /\ (k = 1 \/ IsSpace(s[k - 1]))}
        EndOf(k) == CHOOSE j \in k..Len(s) :
                        /\ \A m \in k..j : ~IsSpace(s[m])
                        /\ j = Len(s) \/ IsSpace(s[j + 1])
        Nth(n) == CHOOSE k \in starts : Cardinality({j \in starts : j < k}) = n - 1
    IN  [n \in 1..Cardinality(starts) |-> SubSeq(s, Nth(n), EndOf(Nth(n)))] \o <<>>

RECURSIVE JoinRange(_, _, _, _)
\* sep.join(parts[lo..hi]), by halves.
JoinRange(sep, parts, lo, hi) ==
    IF lo > hi THEN <<>>
    ELSE IF lo = hi THEN parts[lo]
    ELSE LET mid == (lo + hi) \div 2
         IN  JoinRange(sep, parts, lo, mid) \o sep \o JoinRange(sep, parts, mid + 1, hi)

\* sep.join(parts)
JoinWith(sep, parts) == JoinRange(sep, parts, 1, Len(parts))

\* ''.join(parts)
Concat(parts) == JoinWith(<<>>, parts)

\* The one-character string ' '.
SPACE == <<32>>

\* len(c.encode('utf-8')) of one character.
Utf8Len(c) == IF c < 128 THEN 1 ELSE IF c < 2048 THEN 2 ELSE IF c < 65536 THEN 3 ELSE 4

RECURSIVE Utf8Range(_, _, _)
\* The number of bytes of s[lo..hi], by halves.
Utf8Range(s, lo, hi) ==
    IF lo > hi THEN 0
    ELSE IF lo = hi THEN Utf8Len(s[lo])
    ELSE LET mid == (lo + hi) \div 2
         IN  Utf8Range(s, lo, mid) + Utf8Range(s, mid + 1, hi)

\* len(text.encode('utf-8'))
Utf8Size(s) == Utf8Range(s, 1, Len(s))

RECURSIVE StrLess(_, _)
\* a < b on Python strings: lexicographic on code points, a proper prefix first.
StrLess(a, b) ==
    IF b = <<>> THEN FALSE
    ELSE IF a = <<>> THEN TRUE
    ELSE IF Head(a) # Head(b) THEN Head(a) < Head(b)
    ELSE StrLess(Tail(a), Tail(b))

\* p < q on Python 2-tuples of strings.
PairLess(p, q) == IF p[1] # q[1] THEN StrLess(p[1], q[1]) ELSE StrLess(p[2], q[2])

\* The empty dict.
EmptyDict == [k \in {} |-> 0]

\* d[k] = v
DictSet(d, k, v) == (k :> v) @@ d

\* del d[k]
DictDel(d, k) == [x \in DOMAIN d \ {k} |-> d[x]] @@ EmptyDict

\* len(d)
DictLen(d) == Cardinality(DOMAIN d)

\* y, with x evaluated first. The loops below are evaluated by halves, the
\* first half's result before the second half begins, so that the depth of
\* the evaluation is the logarithm of the number of iterations.
After(x, y) == IF x = x THEN y ELSE y

\* a / b as a float, a and b non-negative integers, b > 0.
Ratio(a, b) == <<a, b>>

\* 0.0
ZeroRatio == <<0, 1>>

\* x >= y and x > y on such floats.
RatioGeq(x, y) == x[1] * y[2] >= y[1] * x[2]
RatioGt(x, y) == x[1] * y[2] > y[1] * x[2]

(***************************************************************************)
(* collections.Counter over a list of words: the keys in insertion order   *)
(* (first occurrence) and the count of each.                               *)
(***************************************************************************)

\* collections.Counter(ws): a key for each distinct word, in the order of
\* the first occurrences, and the number of occurrences of each.
Counter(ws) ==
    LET firsts == {k \in 1..Len(ws) : \A j \in 1..(k - 1) : ws[j] # ws[k]}
        Nth(n) == CHOOSE k \in firsts : Cardinality({j \in firsts : j < k}) = n - 1
    IN  [keys |-> [n \in 1..Cardinality(firsts) |-> ws[Nth(n)]] \o <<>>,
         count |-> [w \in {ws[k] : k \in 1..Len(ws)} |->
                        Cardinality({k \in 1..Len(ws) : ws[k] = w})] @@ EmptyDict]

\* counter[key]: 0 for a missing key.
CounterGet(c, key) == IF key \in DOMAIN c.count THEN c.count[key] ELSE 0

RECURSIVE MostCommonFrom(_, _, _)
MostCommonFrom(c, rest, n) ==
    IF n <= 0 \/ rest = <<>> THEN <<>>
    ELSE LET k == CHOOSE k \in 1..Len(rest) :
                     /\ \A m \in 1..Len(rest) : c.count[rest[m]] <= c.count[rest[k]]
                     /\ \A m \in 1..(k - 1) : c.count[rest[m]] < c.count[rest[k]]
             others == SubSeq(rest, 1, k - 1) \o SubSeq(rest, k + 1, Len(rest))
         IN  <<rest[k]>> \o MostCommonFrom(c, others, n - 1)

\* [word for word, freq in counter.most_common(n)]: the n keys of highest
\* count, highest first, equal counts in insertion order.
most_common(c, n) == MostCommonFrom(c, c.keys, n)

(***************************************************************************)
(* The tokenizer's constants.                                              *)
(***************************************************************************)

\* "<PAD>", "<UNK>", "<BOS>", "<EOS>"
PAD == <<60, 80, 65, 68, 62>>
UNK == <<60, 85, 78, 75, 62>>
BOS == <<60, 66, 79, 83, 62>>
EOS == <<60, 69, 79, 83, 62>>

\* self.special_tokens
special_tokens == {PAD, UNK, BOS, EOS}

\* self.word_end_token: the one-character string U+2581.
word_end_token == <<9601>>

\* The curated list of train_on_chunk, in its order.
common_words ==
    << <<2361, 2376>>, <<2350, 2376, 2306>>, <<2361, 2370, 2306>>,
       <<2325, 2366>>, <<2325, 2368>>, <<2325, 2375>>,
       <<2350, 2375, 2306>>, <<2360, 2375>>, <<2325, 2379>>,
       <<2346, 2352>>, <<2324, 2352>>, <<2361, 2376, 2306>>,
       <<2341, 2366>>, <<2341, 2368>>, <<2341, 2375>>,
       <<2344, 2350, 2360, 2381, 2340, 2375>>, <<2349, 2366, 2352, 2340>>,
       <<2361, 2367, 2306, 2342, 2368>>,
       <<2360, 2368, 2326>>, <<2352, 2361, 2366>>, <<2351, 2361>>,
       <<2319, 2325>>, <<2346, 2352, 2368, 2325, 2381, 2359, 2339>>,
       <<2357, 2366, 2325, 2381, 2351>>,
       <<2357, 2367, 2358, 2366, 2354>>, <<2342, 2375, 2358>>, <<2350, 2369, 2333, 2375>>,
       <<2349, 2366, 2359, 2366>>, <<2348, 2361, 2369, 2340>>, <<2346, 2360, 2306, 2342>> >>

\* The divisor of max_vocab_size that bounds the frequent whole words.
WordShare == 10

\* A checkpoint is taken when len(vocab) is a multiple of this.
CheckEvery == 50

\* The number of leading words of the chunk in a checkpoint's sample.
SampleWords == 2000

\* re.match(r'[U+0900-U+097F]', c)
IsDevanagari(c) == c \in 2304..2431

\* re.match(r'[U+0900-U+0903 U+093A-U+094F U+0962-U+0963]', c)
IsCombiningMark(c) == c \in (2304..2307) \cup (2362..2383) \cup (2402..2403)

(***************************************************************************)
(* The vocabulary: vocab maps a token to its id, inverse_vocab an id to    *)
(* its token. tabs is the record of the two.                               *)
(***************************************************************************)

\* self.vocab[token] = len(self.vocab)
\* self.inverse_vocab[self.vocab[token]] = token
AddToken(tabs, token) ==
    LET v == DictSet(tabs.vocab, token, DictLen(tabs.vocab))
    IN  [vocab |-> v, inverse_vocab |-> DictSet(tabs.inverse_vocab, v[token], token)]

\* The tables HindiBPE.__init__ builds.
InitTabs ==
    LET v4 == (PAD :> 0) @@ (UNK :> 1) @@ (BOS :> 2) @@ (EOS :> 3)
        i4 == [id \in {v4[t] : t \in DOMAIN v4} |-> CHOOSE t \in DOMAIN v4 : v4[t] = id]
    IN  AddToken([vocab |-> v4, inverse_vocab |-> i4], word_end_token)

(***************************************************************************)
(* _tokenize_word                                                          *)
(***************************************************************************)

RECURSIVE MarksEnd(_, _)
\* The index after the combining marks that start at index k of word.
MarksEnd(word, k) ==
    IF k <= Len(word) /\ IsCombiningMark(word[k]) THEN MarksEnd(word, k + 1) ELSE k

RECURSIVE GraphemesFrom(_, _, _)
GraphemesFrom(word, k, tokens) ==
    IF k > Len(word) THEN tokens
    ELSE IF IsDevanagari(word[k])
         THEN LET j == MarksEnd(word, k + 1)
              IN  GraphemesFrom(word, j, Append(tokens, SubSeq(word, k, j - 1)))
         ELSE GraphemesFrom(word, k + 1, Append(tokens, <<word[k]>>))

\* The split of _tokenize_word for a word that is neither cached nor in vocab.
Graphemes(word) == GraphemesFrom(word, 1, <<>>)

\* _tokenize_word(word): the tokens returned and the cache it leaves.
tokenize_word(v, c, word) ==
    IF word \in DOMAIN c THEN [tokens |-> c[word], cache |-> c]
    ELSE IF word \in DOMAIN v
         THEN [tokens |-> <<word>>, cache |-> DictSet(c, word, <<word>>)]
         ELSE LET tokens == Graphemes(word)
              IN  [tokens |-> tokens, cache |-> DictSet(c, word, tokens)]

(***************************************************************************)
(* encode                                                                  *)
(***************************************************************************)

\* float('inf'), and a rank r of bpe_ranks as <<r>>.
Inf == <<>>

\* self.bpe_ranks.get(pair, float('inf'))
RankOf(ranks, pair) == IF pair \in DOMAIN ranks THEN <<ranks[pair]>> ELSE Inf

\* Fault: the scan keeps the last of the pairs of lowest rank.
RankLessOrEqual(rank, best_rank) ==
    rank # Inf /\ (best_rank = Inf \/ rank[1] <= best_rank[1])

\* if rank < best_rank
RankLess(rank, best_rank) ==
    rank # Inf /\ (best_rank = Inf \/ rank[1] < best_rank[1])

RECURSIVE ScanPairs(_, _, _, _)
\* The loop `for i, pair in enumerate(pairs)` from the pair of index k (from
\* 1) on: best is the record of best_rank and best_idx so far, best_idx
\* counted from 1 and 0 while best_pair is None.
ScanPairs(pairs, ranks, k, best) ==
    IF k > Len(pairs) THEN best
    ELSE LET rank == RankOf(ranks, pairs[k])
         IN  ScanPairs(pairs, ranks, k + 1,
                       IF RankLess(rank, best.best_rank)
                       THEN [best_rank |-> rank, best_idx |-> k]
                       ELSE best)

\* One iteration of the while loop of encode, entered with two tokens or
\* more: the tokens it leaves, and whether it merged (FALSE: it left the
\* loop by break).
MergeStep(v, ranks, tokens) ==
    LET pairs == [k \in 1..(Len(tokens) - 1) |-> <<tokens[k], tokens[k + 1]>>]
        best == ScanPairs(pairs, ranks, 1, [best_rank |-> Inf, best_idx |-> 0])
        best_idx == best.best_idx
    IN  IF best_idx = 0 THEN [tokens |-> tokens, merged |-> FALSE]
        ELSE LET merged == Concat(pairs[best_idx])
             IN  IF merged \notin DOMAIN v THEN [tokens |-> tokens, merged |-> FALSE]
                 ELSE [tokens |-> SubSeq(tokens, 1, best_idx - 1) \o <<merged>>
                                      \o SubSeq(tokens, best_idx + 2, Len(tokens)),
                       merged |-> TRUE]

RECURSIVE MergeLoop(_, _, _, _)
\* The while loop of encode on the tokens of one word. i is the function's
\* variable i, which the loop `for i, pair in enumerate(pairs)` rebinds: it
\* is left at the index of the last pair of the last iteration entered.
MergeLoop(v, ranks, tokens, i) ==
    IF Len(tokens) <= 1 THEN [tokens |-> tokens, i |-> i]
    ELSE LET step == MergeStep(v, ranks, tokens)
             last == Len(tokens) - 2
         IN  IF step.merged THEN MergeLoop(v, ranks, step.tokens, last)
             ELSE [tokens |-> tokens, i |-> last]

RECURSIVE CharIds(_, _)
\* The ids of the characters of a token that is not in vocab.
CharIds(v, token) ==
    IF token = <<>> THEN <<>>
    ELSE <<IF <<Head(token)>> \in DOMAIN v THEN v[<<Head(token)>>] ELSE v[UNK]>>
             \o CharIds(v, Tail(token))

RECURSIVE TokenIds(_, _)
\* "Convert tokens to ids"
TokenIds(v, tokens) ==
    IF tokens = <<>> THEN <<>>
    ELSE (IF Head(tokens) \in DOMAIN v THEN <<v[Head(tokens)]>> ELSE CharIds(v, Head(tokens)))
             \o TokenIds(v, Tail(tokens))

\* The body of encode's loop for one word, up to the boundary test: the ids
\* of the word, the cache, and the value of i the boundary test reads. i is
\* the word's index (from 0) on entry.
EncodeWord(v, ranks, c, word, i) ==
    IF word \in DOMAIN v THEN [ids |-> <<v[word]>>, cache |-> c, i |-> i]
    ELSE LET t == tokenize_word(v, c, word)
             m == MergeLoop(v, ranks, t.tokens, i)
         IN  [ids |-> TokenIds(v, m.tokens), cache |-> t.cache, i |-> m.i]

\* Fault: encode that never emits the boundary id.
BoundaryNever(v, i, nwords) == <<>>

\* "Add word boundary token except for the last word"
Boundary(v, i, nwords) == IF i < nwords - 1 THEN <<v[word_end_token]>> ELSE <<>>

\* One iteration of encode's loop over words, for the word of index n (from
\* 0): the ids it appends to result and the cache it leaves.
EncodeStep(v, ranks, c, words, n) ==
    IF IsBlank(words[n + 1]) THEN [ids |-> <<>>, cache |-> c]
    ELSE LET w == EncodeWord(v, ranks, c, words[n + 1], n)
         IN  [ids |-> w.ids \o Boundary(v, w.i, Len(words)), cache |-> w.cache]

RECURSIVE EncodeWords(_, _, _, _, _, _)
\* encode's loop for the words of index lo..hi, in order: the iterations of
\* lo..mid, then those of mid+1..hi from the cache the first half leaves.
EncodeWords(v, ranks, c, words, lo, hi) ==
    IF lo > hi THEN [ids |-> <<>>, cache |-> c]
    ELSE IF lo = hi THEN EncodeStep(v, ranks, c, words, lo)
    ELSE LET mid == (lo + hi) \div 2
             l == EncodeWords(v, ranks, c, words, lo, mid)
             r == EncodeWords(v, ranks, l.cache, words, mid + 1, hi)
         IN  After(l, [ids |-> l.ids \o r.ids, cache |-> r.cache])

\* encode(text): the ids returned and the cache it leaves.
encode(v, ranks, c, text) ==
    IF IsBlank(text) THEN [ids |-> <<>>, cache |-> c]
    ELSE LET words == split(text)
         IN  EncodeWords(v, ranks, c, words, 0, Len(words) - 1)

(***************************************************************************)
(* decode                                                                  *)
(***************************************************************************)

RECURSIVE DecodeFrom(_, _, _, _)
\* decode's loop over ids and the flush after it: the list of words.
DecodeFrom(iv, ids, tokens, current_word) ==
    IF ids = <<>>
    THEN IF current_word # <<>> THEN Append(tokens, Concat(current_word)) ELSE tokens
    ELSE LET token == IF Head(ids) \in DOMAIN iv THEN iv[Head(ids)] ELSE UNK
         IN  IF token \in special_tokens /\ token # word_end_token
             THEN DecodeFrom(iv, Tail(ids), tokens, current_word)
             ELSE IF token = word_end_token
                  THEN IF current_word # <<>>
                       THEN DecodeFrom(iv, Tail(ids), Append(tokens, Concat(current_word)), <<>>)
                       ELSE DecodeFrom(iv, Tail(ids), tokens, current_word)
                  ELSE DecodeFrom(iv, Tail(ids), tokens, Append(current_word, token))

\* decode(ids)
decode(iv, ids) ==
    IF ids = <<>> THEN <<>> ELSE JoinWith(SPACE, DecodeFrom(iv, ids, <<>>, <<>>))

(***************************************************************************)
(* get_compression_ratio                                                   *)
(***************************************************************************)

\* get_compression_ratio(text): the ratio returned and the cache it leaves.
get_compression_ratio(v, ranks, c, text) ==
    IF text = <<>> THEN [ratio |-> ZeroRatio, cache |-> c]
    ELSE LET e == encode(v, ranks, c, text)
         IN  IF e.ids = <<>> THEN [ratio |-> ZeroRatio, cache |-> e.cache]
             ELSE [ratio |-> Ratio(Utf8Size(text), Len(e.ids)), cache |-> e.cache]

(***************************************************************************)
(* The steps of train_on_chunk, as functions of the values they read.      *)
(***************************************************************************)

\* Fault: the loop over common_words without its test of the cap.
SeedWordNoCap(tabs, word, max) ==
    IF word \notin DOMAIN tabs.vocab THEN AddToken(tabs, word) ELSE tabs

\* One iteration of the loop over common_words: the word is added when it
\* is not in vocab and the vocabulary is below max.
SeedWord(tabs, word, max) ==
    IF word \notin DOMAIN tabs.vocab /\ DictLen(tabs.vocab) < max
    THEN AddToken(tabs, word) ELSE tabs

RECURSIVE SeedRange(_, _, _, _, _)
\* The iterations for ws[lo..hi], in order, by halves.
SeedRange(tabs, ws, lo, hi, max) ==
    IF lo > hi THEN tabs
    ELSE IF lo = hi THEN SeedWord(tabs, ws[lo], max)
    ELSE LET mid == (lo + hi) \div 2
             half == SeedRange(tabs, ws, lo, mid, max)
         IN  After(half, SeedRange(half, ws, mid + 1, hi, max))

\* The loop over common_words.
SeedCommon(tabs, ws, max) == SeedRange(tabs, ws, 1, Len(ws), max)

\* Fault: the loop over the frequent words without its test of the cap.
SeedFrequentWordNoCap(tabs, word, max) ==
    IF Len(word) > 1 /\ word \notin DOMAIN tabs.vocab
    THEN AddToken(tabs, word) ELSE tabs

\* One iteration of the loop over word_freqs.most_common(max_word_tokens).
SeedFrequentWord(tabs, word, max) ==
    IF Len(word) > 1 /\ word \notin DOMAIN tabs.vocab /\ DictLen(tabs.vocab) < max
    THEN AddToken(tabs, word) ELSE tabs

RECURSIVE SeedFrequentRange(_, _, _, _, _)
\* The iterations for ws[lo..hi], in order, by halves.
SeedFrequentRange(tabs, ws, lo, hi, max) ==
    IF lo > hi THEN tabs
    ELSE IF lo = hi THEN SeedFrequentWord(tabs, ws[lo], max)
    ELSE LET mid == (lo + hi) \div 2
             half == SeedFrequentRange(tabs, ws, lo, mid, max)
         IN  After(half, SeedFrequentRange(half, ws, mid + 1, hi, max))

\* The loop over word_freqs.most_common(max_word_tokens).
SeedFrequent(tabs, ws, max) == SeedFrequentRange(tabs, ws, 1, Len(ws), max)

RECURSIVE TokenizeRange(_, _, _, _, _)
\* _tokenize_word on ws[lo..hi], in order, by halves: the list of the
\* results and the cache the calls leave.
TokenizeRange(v, c, ws, lo, hi) ==
    IF lo > hi THEN [words |-> <<>>, cache |-> c]
    ELSE IF lo = hi
         THEN LET t == tokenize_word(v, c, ws[lo])
              IN  [words |-> <<t.tokens>>, cache |-> t.cache]
    ELSE LET mid == (lo + hi) \div 2
             l == TokenizeRange(v, c, ws, lo, mid)
             r == TokenizeRange(v, l.cache, ws, mid + 1, hi)
         IN  After(l, [words |-> l.words \o r.words, cache |-> r.cache])

\* [self._tokenize_word(word) for word in text.split()]
TokenizeAll(v, c, ws) == TokenizeRange(v, c, ws, 1, Len(ws))

\* [word for word in words if word]
NonEmpty(ws) == SelectSeq(ws, LAMBDA w : w # <<>>)

\* The sum of two Counters.
CounterSum(a, b) ==
    [p \in DOMAIN a \cup DOMAIN b |->
        (IF p \in DOMAIN a THEN a[p] ELSE 0) + (IF p \in DOMAIN b THEN b[p] ELSE 0)]
      @@ EmptyDict

RECURSIVE AddPairs(_, _, _, _)
\* for i in range(len(word) - 1): pair_stats[(word[i], word[i+1])] += word_freq
\* What the iterations for the pairs at lo..hi add, by halves.
AddPairs(word, lo, hi, word_freq) ==
    IF lo > hi THEN EmptyDict
    ELSE IF lo = hi THEN <<word[lo], word[lo + 1]>> :> word_freq
    ELSE LET mid == (lo + hi) \div 2
         IN  CounterSum(AddPairs(word, lo, mid, word_freq),
                        AddPairs(word, mid + 1, hi, word_freq))

\* word_freq = word_freqs[' '.join(word)]
WordFreq(wf, word) == CounterGet(wf, JoinWith(SPACE, word))

\* What the loop's iteration for one word adds to pair_stats.
WordPairs(word, wf) ==
    IF Len(word) < 2 THEN EmptyDict
    ELSE AddPairs(word, 1, Len(word) - 1, WordFreq(wf, word))

RECURSIVE PairStatsRange(_, _, _, _)
\* What the iterations for ws[lo..hi] add, by halves.
PairStatsRange(ws, wf, lo, hi) ==
    IF lo > hi THEN EmptyDict
    ELSE IF lo = hi THEN WordPairs(ws[lo], wf)
    ELSE LET mid == (lo + hi) \div 2
         IN  CounterSum(PairStatsRange(ws, wf, lo, mid), PairStatsRange(ws, wf, mid + 1, hi))

\* The pair statistics of a list of words: a Counter from pair to count.
PairStats(ws, wf) == PairStatsRange(ws, wf, 1, Len(ws))

\* max(pair_stats.items(), key=lambda x: (x[1], x[0]))[0]
BestPair(stats) ==
    CHOOSE p \in DOMAIN stats : \A q \in DOMAIN stats :
        \/ q = p
        \/ stats[q] < stats[p]
        \/ stats[q] = stats[p] /\ PairLess(q, p)

RECURSIVE MergeWordFrom(_, _, _, _)
MergeWordFrom(word, k, best_pair, new_word) ==
    IF k > Len(word) THEN new_word
    ELSE IF k < Len(word) /\ word[k] = best_pair[1] /\ word[k + 1] = best_pair[2]
         THEN MergeWordFrom(word, k + 2, best_pair, Append(new_word, Concat(best_pair)))
         ELSE MergeWordFrom(word, k + 1, best_pair, Append(new_word, word[k]))

\* The rewrite of one word by a merge of best_pair.
MergeWord(word, best_pair) ==
    IF Len(word) < 2 THEN word ELSE MergeWordFrom(word, 1, best_pair, <<>>)

\* new_words
MergeWords(ws, best_pair) == [k \in 1..Len(ws) |-> MergeWord(ws[k], best_pair)] \o <<>>

\* sample_text = ' '.join([''.join(w) for w in words[:2000]])
SampleText(ws) ==
    LET n == IF Len(ws) < SampleWords THEN Len(ws) ELSE SampleWords
    IN  JoinWith(SPACE, [k \in 1..n |-> Concat(ws[k])] \o <<>>)

\* best_state = None
None == <<>>

(***************************************************************************)
(* Bounds and inputs.                                                      *)
(***************************************************************************)

\* The values of max_vocab_size a tokenizer is constructed with: one that
\* the curated words fill, one that leaves room for two merges, one that a
\* chunk takes past a first checkpoint, one past a second.
CapCurated == 7
CapMerges == 37
CapOne == 54
CapTwo == 102

\* The number of train_on_chunk calls and of serving calls in a run.
MaxTrainCalls == 2
MaxServeCalls == 1

MaxVocabSizes == {CapCurated, CapMerges, CapOne, CapTwo}

\* target_compression: 3.2, the default and the value of every caller.
TargetCompressions == {Ratio(16, 5)}

\* Words of the inputs: Latin words of one, two and three letters, a
\* curated word, a control token and the boundary token.
WordX == <<120>>
WordAB == <<97, 98>>
WordABC == <<97, 98, 99>>
WordYZ == <<121, 122>>
WordHai == common_words[1]

\* The chunks handed to train_on_chunk.

\* "\t\n": whitespace only.
ChunkBlank == <<9, 10>>

\* Two curated words, one of them twice.
ChunkCurated == JoinWith(SPACE, <<WordHai, common_words[4], WordHai>>)

\* "p p p q q q r r r ab ab yz": three one-letter words three times each,
\* then a word that occurs twice and a word that occurs once.
ChunkRare ==
    JoinWith(SPACE, << <<112>>, <<112>>, <<112>>, <<113>>, <<113>>, <<113>>,
                       <<114>>, <<114>>, <<114>>, WordAB, WordAB, WordYZ >>)

\* The curated word of common_words[23] twice, ten words of two vowels or
\* consonants (U+0905 U+0906, U+0907 U+0908, ...), then five words of
\* twelve consonants each, from U+0919..U+0939.
ShortWords == [k \in 1..10 |-> <<2307 + 2 * k, 2308 + 2 * k>>] \o <<>>
LongWords ==
    << <<2329, 2330, 2331, 2332, 2333, 2334, 2335, 2336, 2337, 2338, 2339, 2340>>,
       <<2341, 2344, 2347, 2350, 2353, 2356, 2359, 2329, 2332, 2335, 2338, 2341>>,
       <<2353, 2358, 2330, 2335, 2340, 2345, 2350, 2355, 2360, 2332, 2337, 2342>>,
       <<2332, 2339, 2346, 2353, 2360, 2334, 2341, 2348, 2355, 2329, 2336, 2343>>,
       <<2344, 2353, 2329, 2338, 2347, 2356, 2332, 2341, 2350, 2359, 2335, 2344>> >>
ChunkLong == JoinWith(SPACE, <<common_words[23], common_words[23]>> \o ShortWords \o LongWords)

Chunks == {ChunkBlank, ChunkCurated, ChunkRare, ChunkLong}

\* The texts handed to encode, get_compression_ratio and the round trip:
\* the empty text, texts of one word and of two, the two separated by one
\* space or by two, and a text with a leading space.
Texts ==
    { <<>>, WordX, WordAB, WordHai, UNK, word_end_token, LongWords[1],
      WordAB \o WordYZ, WordAB \o WordAB,
      WordX \o SPACE \o WordAB,
      WordABC \o SPACE \o WordX,
      WordAB \o SPACE \o WordHai,
      WordHai \o SPACE \o WordHai,
      WordHai \o SPACE \o UNK,
      WordHai \o SPACE \o SPACE \o WordHai,
      SPACE \o WordHai,
      LongWords[1] \o SPACE \o ShortWords[10] }

\* The id lists handed to decode.
IdLists == {<<>>, <<0, 1, 2, 3>>, <<4>>, <<5, 4, 6>>, <<4, 5, 4, 4, 6, 4>>, <<5, 1, 6>>, <<5, 999>>}

(***************************************************************************)
(* The state.                                                              *)
(***************************************************************************)
VARIABLES
    max_vocab_size,      \* self.max_vocab_size
    target_compression,  \* self.target_compression
    vocab,               \* self.vocab
    inverse_vocab,       \* self.inverse_vocab
    bpe_ranks,           \* self.bpe_ranks
    cache,               \* self.cache
    pc,                  \* "idle", or the place a train_on_chunk call is at
    text,                \* train_on_chunk's argument
    word_freqs,          \* train_on_chunk's locals
    words,
    pair_stats,
    best_vocab_size,
    best_compression,
    best_state,
    op,                  \* the last call made, its argument and what it returned
    arg,
    ret,
    entry,               \* history: the tables when the current call began
    met,                 \* history: the checkpoints of the current call that
                         \* met target_compression below the cap, in order
    trained,             \* the number of train_on_chunk calls so far
    served               \* the number of serving calls so far

tables == <<vocab, inverse_vocab, bpe_ranks>>
config == <<max_vocab_size, target_compression>>
locals == <<text, word_freqs, words, pair_stats, best_vocab_size, best_compression, best_state>>
history == <<entry, met>>
vars == <<config, tables, cache, pc, locals, op, arg, ret, history, trained, served>>

\* The record of the three tables: what a snapshot copies.
State(v, iv, ranks) == [vocab |-> v, inverse_vocab |-> iv, bpe_ranks |-> ranks]

\* The locals of train_on_chunk when no call is active.
NoLocals ==
    /\ text' = <<>>
    /\ word_freqs' = Counter(<<>>)
    /\ words' = <<>>
    /\ pair_stats' = EmptyDict
    /\ best_vocab_size' = 0
    /\ best_compression' = ZeroRatio
    /\ best_state' = None

\* HindiBPE(max_vocab_size, target_compression)
Init ==
    /\ max_vocab_size \in MaxVocabSizes
    /\ target_compression \in TargetCompressions
    /\ vocab = InitTabs.vocab
    /\ inverse_vocab = InitTabs.inverse_vocab
    /\ bpe_ranks = EmptyDict
    /\ cache = EmptyDict
    /\ pc = "idle"
    /\ text = <<>>
    /\ word_freqs = Counter(<<>>)
    /\ words = <<>>
    /\ pair_stats = EmptyDict
    /\ best_vocab_size = 0
    /\ best_compression = ZeroRatio
    /\ best_state = None
    /\ op = "init"
    /\ arg = <<>>
    /\ ret = <<>>
    /\ entry = State(vocab, inverse_vocab, bpe_ranks)
    /\ met = <<>>
    /\ trained = 0
    /\ served = 0

(***************************************************************************)
(* train_on_chunk, one action per phase and per iteration of its loop.     *)
(***************************************************************************)

\* A call begins: the history of the call, and the call's count.
Call(chunk) ==
    /\ pc = "idle"
    /\ trained < MaxTrainCalls
    /\ trained' = trained + 1
    /\ op' = "train_on_chunk"
    /\ arg' = chunk
    /\ ret' = <<>>
    /\ entry' = State(vocab, inverse_vocab, bpe_ranks)
    /\ met' = <<>>
    /\ UNCHANGED <<config, served>>

\* train_on_chunk(text) with text empty or all whitespace: returns at once.
TrainBlank(chunk) ==
    /\ Call(chunk)
    /\ IsBlank(chunk)
    /\ UNCHANGED <<tables, cache, pc, locals>>

\* The call's first phase: the curated words are added.
TrainCurated(chunk) ==
    /\ Call(chunk)
    /\ ~IsBlank(chunk)
    /\ LET tabs == SeedCommon([vocab |-> vocab, inverse_vocab |-> inverse_vocab],
                              common_words, max_vocab_size)
       IN  /\ vocab' = tabs.vocab
           /\ inverse_vocab' = tabs.inverse_vocab
    /\ text' = chunk
    /\ pc' = "frequent"
    /\ UNCHANGED <<bpe_ranks, cache, word_freqs, words, pair_stats,
                   best_vocab_size, best_compression, best_state>>

\* The word frequencies are counted and the most frequent whole words added.
TrainFrequent ==
    /\ pc = "frequent"
    /\ LET wf == Counter(split(text))
           max_word_tokens == max_vocab_size \div WordShare
           tabs == SeedFrequent([vocab |-> vocab, inverse_vocab |-> inverse_vocab],
                                most_common(wf, max_word_tokens), max_vocab_size)
       IN  /\ word_freqs' = wf
           /\ vocab' = tabs.vocab
           /\ inverse_vocab' = tabs.inverse_vocab
    /\ pc' = "tokenize"
    /\ UNCHANGED <<config, bpe_ranks, cache, text, words, pair_stats,
                   best_vocab_size, best_compression, best_state, op, arg, ret,
                   history, trained, served>>

\* The words are tokenized and the pair statistics computed; the call
\* returns when there is no word or no pair, and enters its loop otherwise.
TrainTokenize ==
    /\ pc = "tokenize"
    /\ LET t == TokenizeAll(vocab, cache, split(text))
           ws == NonEmpty(t.words)
           stats == PairStats(ws, word_freqs)
       IN  /\ cache' = t.cache
           /\ IF ws = <<>> \/ DOMAIN stats = {}
              THEN /\ pc' = "idle"
                   /\ NoLocals
              ELSE /\ pc' = "loop"
                   /\ words' = ws
                   /\ pair_stats' = stats
                   /\ best_vocab_size' = DictLen(vocab)
                   /\ best_compression' = ZeroRatio
                   /\ best_state' = None
                   /\ UNCHANGED <<text, word_freqs>>
    /\ UNCHANGED <<config, tables, op, arg, ret, history, trained, served>>

\* while len(self.vocab) < self.max_vocab_size and pair_stats
LoopGuard == DictLen(vocab) < max_vocab_size /\ DOMAIN pair_stats # {}

\* The loop ends because its condition is false.
TrainLoopExit ==
    /\ pc = "loop"
    /\ ~LoopGuard
    /\ pc' = "restore"
    /\ UNCHANGED <<config, tables, cache, locals, op, arg, ret, history, trained, served>>

\* Fault: the skip without its test of membership.
SkipPairFullOnly(v, best_pair, max) == DictLen(v) >= max

\* "Skip if token already exists or vocab is full"
SkipPair(v, best_pair, max) == Concat(best_pair) \in DOMAIN v \/ DictLen(v) >= max

\* An iteration that discards the selected pair.
TrainLoopSkip ==
    /\ pc = "loop"
    /\ LoopGuard
    /\ LET best_pair == BestPair(pair_stats)
       IN  /\ SkipPair(vocab, best_pair, max_vocab_size)
           /\ pair_stats' = DictDel(pair_stats, best_pair)
    /\ UNCHANGED <<config, tables, cache, pc, text, word_freqs, words,
                   best_vocab_size, best_compression, best_state, op, arg, ret,
                   history, trained, served>>

\* "Update best model if we meet requirements"
MeetsRequirements(current_ratio, target, size, max) ==
    RatioGeq(current_ratio, target) /\ size < max

\* Fault: only the first checkpoint that meets the requirements is kept.
ImprovesFirstOnly(current_ratio, best) == best = ZeroRatio

\* if current_ratio > best_compression
Improves(current_ratio, best) == RatioGt(current_ratio, best)

\* if len(self.vocab) % 50 == 0
AtCheckpoint(size) == size % CheckEvery = 0

\* An iteration that merges the selected pair: the token and its rank are
\* added, the words rewritten, the statistics recomputed, a checkpoint
\* taken when due, and the loop left when the vocabulary is full.
TrainLoopMerge ==
    /\ pc = "loop"
    /\ LoopGuard
    /\ LET best_pair == BestPair(pair_stats)
           new_token == Concat(best_pair)
           tabs == AddToken([vocab |-> vocab, inverse_vocab |-> inverse_vocab], new_token)
           ranks == DictSet(bpe_ranks, best_pair, DictLen(bpe_ranks))
           new_words == MergeWords(words, best_pair)
           size == DictLen(tabs.vocab)
           r == get_compression_ratio(tabs.vocab, ranks, cache, SampleText(new_words))
           snap == /\ AtCheckpoint(size)
                   /\ MeetsRequirements(r.ratio, target_compression, size, max_vocab_size)
       IN  /\ ~SkipPair(vocab, best_pair, max_vocab_size)
           /\ vocab' = tabs.vocab
           /\ inverse_vocab' = tabs.inverse_vocab
           /\ bpe_ranks' = ranks
           /\ words' = new_words
           /\ pair_stats' = PairStats(new_words, word_freqs)
           /\ cache' = IF AtCheckpoint(size) THEN r.cache ELSE cache
           /\ IF snap /\ Improves(r.ratio, best_compression)
              THEN /\ best_compression' = r.ratio
                   /\ best_vocab_size' = size
                   /\ best_state' = <<State(tabs.vocab, tabs.inverse_vocab, ranks)>>
              ELSE UNCHANGED <<best_compression, best_vocab_size, best_state>>
           /\ met' = IF snap
                     THEN Append(met, [size |-> size, ratio |-> r.ratio,
                                       state |-> State(tabs.vocab, tabs.inverse_vocab, ranks)])
                     ELSE met
           /\ pc' = IF size >= max_vocab_size THEN "restore" ELSE "loop"
    /\ UNCHANGED <<config, text, word_freqs, op, arg, ret, entry, trained, served>>

\* Fault: a restore that forgets inverse_vocab.
RestoredVocabOnly(best, v, iv, ranks) ==
    IF best # None
    THEN State(best[1].vocab, iv, best[1].bpe_ranks)
    ELSE State(v, iv, ranks)

\* Fault: a restore that forgets bpe_ranks.
RestoredKeepRanks(best, v, iv, ranks) ==
    IF best # None
    THEN State(best[1].vocab, best[1].inverse_vocab, ranks)
    ELSE State(v, iv, ranks)

\* "Restore best model if found": the tables the call ends with, given the
\* snapshot (None, or a one-element tuple) and the live tables.
Restored(best, v, iv, ranks) ==
    IF best # None THEN best[1] ELSE State(v, iv, ranks)

\* The restore, the final metrics, and the return.
TrainRestore ==
    /\ pc = "restore"
    /\ LET s == Restored(best_state, vocab, inverse_vocab, bpe_ranks)
           r == get_compression_ratio(s.vocab, s.bpe_ranks, cache, text)
       IN  /\ vocab' = s.vocab
           /\ inverse_vocab' = s.inverse_vocab
           /\ bpe_ranks' = s.bpe_ranks
           /\ cache' = r.cache
    /\ pc' = "idle"
    /\ NoLocals
    /\ UNCHANGED <<config, op, arg, ret, history, trained, served>>

(***************************************************************************)
(* The serving calls, made when no training call is active.                *)
(***************************************************************************)

Serve(name, input) ==
    /\ pc = "idle"
    /\ served < MaxServeCalls
    /\ served' = served + 1
    /\ op' = name
    /\ arg' = input
    /\ UNCHANGED <<config, pc, locals, history, trained>>

\* Fault: an encode that adds the words it does not know to vocab.
EncodeLearns(t) ==
    /\ Serve("encode", t)
    /\ LET e == encode(vocab, bpe_ranks, cache, t)
           tabs == SeedCommon([vocab |-> vocab, inverse_vocab |-> inverse_vocab],
                              split(t), DictLen(vocab) + Len(t))
       IN  /\ ret' = e.ids
           /\ cache' = e.cache
           /\ vocab' = tabs.vocab
           /\ inverse_vocab' = tabs.inverse_vocab
    /\ UNCHANGED bpe_ranks

\* encode(t)
Encode(t) ==
    /\ Serve("encode", t)
    /\ LET e == encode(vocab, bpe_ranks, cache, t)
       IN  /\ ret' = e.ids
           /\ cache' = e.cache
    /\ UNCHANGED tables

\* decode(ids)
Decode(ids) ==
    /\ Serve("decode", ids)
    /\ ret' = decode(inverse_vocab, ids)
    /\ UNCHANGED <<tables, cache>>

\* get_compression_ratio(t)
GetCompressionRatio(t) ==
    /\ Serve("get_compression_ratio", t)
    /\ LET r == get_compression_ratio(vocab, bpe_ranks, cache, t)
       IN  /\ ret' = r.ratio
           /\ cache' = r.cache
    /\ UNCHANGED tables

\* encoded = tokenizer.encode(t); decoded = tokenizer.decode(encoded)
RoundTrip(t) ==
    /\ Serve("round_trip", t)
    /\ LET e == encode(vocab, bpe_ranks, cache, t)
       IN  /\ ret' = decode(inverse_vocab, e.ids)
           /\ cache' = e.cache
    /\ UNCHANGED tables

Next ==
    \/ \E chunk \in Chunks : TrainBlank(chunk)
    \/ \E chunk \in Chunks : TrainCurated(chunk)
    \/ TrainFrequent
    \/ TrainTokenize
    \/ TrainLoopExit
    \/ TrainLoopSkip
    \/ TrainLoopMerge
    \/ TrainRestore
    \/ \E t \in Texts : Encode(t)
    \/ \E ids \in IdLists : Decode(ids)
    \/ \E t \in Texts : GetCompressionRatio(t)
    \/ \E t \in Texts : RoundTrip(t)

Spec == Init /\ [][Next]_vars

(***************************************************************************)
(* The properties.                                                         *)
(***************************************************************************)

\* The ids encode emits for one word, from the tables and the cache of the
\* state.
WordIds(word) == EncodeWord(vocab, bpe_ranks, cache, word, 0).ids

\* The ids of the words of t, in order, with the boundary id between each
\* two consecutive words and nowhere else.
Interleaved(t) ==
    LET ws == split(t)
    IN  JoinWith(<<vocab[word_end_token]>>, [k \in 1..Len(ws) |-> WordIds(ws[k])])

\* C1: encode(text) is the ids of the first word, the boundary id, the ids
\* of the second word, and so on: the boundary id stands once between each
\* two consecutive words and never after the last, whatever path the words
\* take.
C1_BoundaryBetweenWords == op = "encode" => ret = Interleaved(arg)

\* Every word of t is a key of vocab.
AllInVocab(t) == \A k \in 1..Len(split(t)) : split(t)[k] \in DOMAIN vocab

\* The words of t are separated by single spaces, with no whitespace before
\* the first or after the last.
SingleSpaced(t) == t = JoinWith(SPACE, split(t))

\* No word of t is a control token or the boundary token.
NoReservedWord(t) ==
    \A k \in 1..Len(split(t)) : split(t)[k] \notin special_tokens \cup {word_end_token}

\* C2 as stated: when every word of the text is a key of vocab,
\* decode(encode(text)) is the text.
C2_RoundTripOfVocabWords ==
    (op = "round_trip" /\ AllInVocab(arg)) => ret = arg

\* C2: when every word of the text is a key of vocab other than the control
\* tokens and the boundary token, and the words are separated by single
\* spaces with no whitespace around them, decode(encode(text)) is the text.
C2_RoundTripOfPlainVocabWords ==
    (op = "round_trip" /\ AllInVocab(arg) /\ NoReservedWord(arg) /\ SingleSpaced(arg))
        => ret = arg

\* A round trip of two or more plain vocabulary words.
C2_Witness ==
    /\ op = "round_trip"
    /\ Len(split(arg)) >= 2
    /\ AllInVocab(arg) /\ NoReservedWord(arg) /\ SingleSpaced(arg)
    /\ ret = arg

\* vocab and inverse_vocab are inverse bijections and the ids are
\* 0..len(vocab)-1.
Bijection(v, iv) ==
    /\ DOMAIN iv = {v[t] : t \in DOMAIN v}
    /\ \A t \in DOMAIN v : iv[v[t]] = t
    /\ \A id \in DOMAIN iv : iv[id] \in DOMAIN v /\ v[iv[id]] = id
    /\ DOMAIN iv = 0..(DictLen(v) - 1)

\* C3: after construction and after every train_on_chunk call, vocab and
\* inverse_vocab are inverse bijections of each other and the ids are
\* exactly 0..len(vocab)-1.
C3_Bijection == pc = "idle" => Bijection(vocab, inverse_vocab)

\* A call has ended by restoring a snapshot smaller than the cap.
C3_Witness ==
    /\ pc = "idle"
    /\ op = "train_on_chunk"
    /\ met # <<>>
    /\ DictLen(vocab) < max_vocab_size
    /\ Bijection(vocab, inverse_vocab)

\* C4: with max_vocab_size above the five reserved ids, len(vocab) is at
\* most max_vocab_size after every call and at every step of one.
C4_WithinCap == max_vocab_size > 5 => DictLen(vocab) <= max_vocab_size

\* The loop has filled the vocabulary to the cap by merges.
C4_Witness ==
    /\ pc = "restore"
    /\ max_vocab_size > 5
    /\ DictLen(vocab) = max_vocab_size
    /\ DOMAIN bpe_ranks # {}

\* The pair the loop's iteration selects.
Selected == BestPair(pair_stats)

\* The loop is about to run an iteration.
InIteration == pc = "loop" /\ LoopGuard

\* C5: a pair gets a rank only at a step where its concatenation is not yet
\* in vocab and len(vocab) is below max_vocab_size; an iteration whose
\* selected pair has its concatenation in vocab, or that finds the
\* vocabulary full, removes the pair from pair_stats and leaves vocab,
\* inverse_vocab and bpe_ranks as they were.
C5_RankOnlyForNewToken ==
    [][ /\ \A p \in (DOMAIN bpe_ranks') \ (DOMAIN bpe_ranks) :
               /\ InIteration
               /\ p = Selected
               /\ Concat(p) \notin DOMAIN vocab
               /\ DictLen(vocab) < max_vocab_size
        /\ (InIteration /\ (\/ Concat(Selected) \in DOMAIN vocab
                            \/ DictLen(vocab) >= max_vocab_size))
               => /\ pair_stats' = DictDel(pair_stats, Selected)
                  /\ UNCHANGED tables ]_vars

\* The loop has discarded a pair since the statistics were last computed,
\* in a call that has ranked a pair.
C5_Witness ==
    /\ pc = "loop"
    /\ DOMAIN pair_stats # DOMAIN PairStats(words, word_freqs)
    /\ \E p \in DOMAIN PairStats(words, word_freqs) : Concat(p) \in DOMAIN vocab
    /\ DOMAIN bpe_ranks # {}

\* C6: after every train_on_chunk call, every pair with a rank has its
\* concatenation in vocab.
C6_RankedPairInVocab ==
    pc = "idle" => \A p \in DOMAIN bpe_ranks : Concat(p) \in DOMAIN vocab

\* A second call has ended, with ranks, after a call restored a snapshot.
C6_Witness ==
    /\ pc = "idle"
    /\ op = "train_on_chunk"
    /\ trained >= 2
    /\ met # <<>>
    /\ DOMAIN bpe_ranks # {}
    /\ \A p \in DOMAIN bpe_ranks : Concat(p) \in DOMAIN vocab

\* C7: encode, decode and get_compression_ratio leave vocab, inverse_vocab,
\* bpe_ranks and the two settings as they were, whatever their input.
C7_ServingLeavesTables ==
    [][ (served' # served /\ op' \in {"encode", "decode", "get_compression_ratio"})
            => UNCHANGED <<tables, config>> ]_vars

\* encode has run on a trained tokenizer and has put its word in the cache.
C7_Witness ==
    /\ op = "encode"
    /\ arg = WordX
    /\ arg \in DOMAIN cache
    /\ DOMAIN bpe_ranks # {}

\* C8: a train_on_chunk call that begins with len(vocab) equal to
\* max_vocab_size leaves vocab, inverse_vocab and bpe_ranks as they were, at
\* every step of the call and at its end.
C8_SaturatedCallChangesNothing ==
    (op = "train_on_chunk" /\ DictLen(entry.vocab) = max_vocab_size)
        => State(vocab, inverse_vocab, bpe_ranks) = entry

\* A call on a chunk with words has ended that began with a full
\* vocabulary holding ranks.
C8_Witness ==
    /\ op = "train_on_chunk"
    /\ pc = "idle"
    /\ trained >= 2
    /\ ~IsBlank(arg)
    /\ DictLen(entry.vocab) = max_vocab_size
    /\ DOMAIN entry.bpe_ranks # {}
    /\ State(vocab, inverse_vocab, bpe_ranks) = entry

\* word has p as two adjacent units.
HasPair(word, p) == \E k \in 1..(Len(word) - 1) : <<word[k], word[k + 1]>> = p

\* The aggregate frequency of p: the number of word occurrences of the
\* chunk whose current unit sequence has p as adjacent units, which is the
\* sum over the words that have it of the times the word occurs.
AggregateFrequency(p) == Cardinality({k \in 1..Len(words) : HasPair(words[k], p)})

\* C9: at every merge step the selected pair has the greatest aggregate
\* frequency of the pairs in pair_stats.
C9_SelectsMostFrequent ==
    (InIteration /\ ~SkipPair(vocab, Selected, max_vocab_size))
        => \A q \in DOMAIN pair_stats : AggregateFrequency(q) <= AggregateFrequency(Selected)

\* The call has ended and a checkpoint of it met the target below the cap.
EndedWithCheckpoint == pc = "idle" /\ op = "train_on_chunk" /\ met # <<>>

\* C10 as stated: the tables a call ends with are those of the checkpoint
\* of smallest vocabulary among those that met the target below the cap.
C10_RestoresSmallest ==
    EndedWithCheckpoint =>
        \E k \in DOMAIN met :
            /\ \A j \in DOMAIN met : met[k].size <= met[j].size
            /\ State(vocab, inverse_vocab, bpe_ranks) = met[k].state

\* C10: the tables a call ends with are those of the checkpoint of greatest
\* compression ratio among those that met the target below the cap, the
\* earliest of them when several share that ratio.
C10_RestoresBestRatio ==
    EndedWithCheckpoint =>
        \E k \in DOMAIN met :
            /\ \A j \in DOMAIN met : RatioGeq(met[k].ratio, met[j].ratio)
            /\ \A j \in 1..(k - 1) : RatioGt(met[k].ratio, met[j].ratio)
            /\ State(vocab, inverse_vocab, bpe_ranks) = met[k].state

\* A call has ended in which two checkpoints met the target below the cap.
C10_Witness ==
    /\ EndedWithCheckpoint
    /\ Len(met) >= 2
    /\ State(vocab, inverse_vocab, bpe_ranks) = met[Len(met)].state

\* What _tokenize_word computes for word with no cache, under the
\* vocabulary of the state.
Segmentation(word) == tokenize_word(vocab, EmptyDict, word).tokens

\* C11: after every train_on_chunk call and every encode call, each entry
\* of the cache is what segmentation of its word computes without the cache
\* under the current vocabulary: <<word>> when the word is in vocab, its
\* grapheme split otherwise.
C11_CacheNeverStale ==
    pc = "idle" => \A word \in DOMAIN cache : cache[word] = Segmentation(word)

\* The adjacent pairs of a unit sequence, and the indices of those that
\* have a rank.
PairsOf(u) == [k \in 1..(Len(u) - 1) |-> <<u[k], u[k + 1]>>]
RankedAt(u) == {k \in 1..(Len(u) - 1) : PairsOf(u)[k] \in DOMAIN bpe_ranks}

\* The index of the leftmost occurrence of the pair of lowest rank.
Winner(u) ==
    CHOOSE k \in RankedAt(u) : \A m \in RankedAt(u) :
        \/ bpe_ranks[PairsOf(u)[m]] > bpe_ranks[PairsOf(u)[k]]
        \/ bpe_ranks[PairsOf(u)[m]] = bpe_ranks[PairsOf(u)[k]] /\ m >= k

\* u with the two units at k and k + 1 replaced by their concatenation.
MergedAt(u, k) ==
    SubSeq(u, 1, k - 1) \o <<u[k] \o u[k + 1]>> \o SubSeq(u, k + 2, Len(u))

\* The iteration of the loop on u does what is claimed: it stops when no
\* pair has a rank or the winner's concatenation is not in vocab, and
\* otherwise merges the winner's occurrence and nothing else.
IterationAsClaimed(u) ==
    LET step == MergeStep(vocab, bpe_ranks, u)
    IN  IF RankedAt(u) = {} \/ Concat(PairsOf(u)[Winner(u)]) \notin DOMAIN vocab
        THEN ~step.merged /\ step.tokens = u
        ELSE step.merged /\ step.tokens = MergedAt(u, Winner(u))

RECURSIVE MergeTrace(_)
\* The unit sequences the loop's iterations begin with, in order, from u.
MergeTrace(u) ==
    IF Len(u) <= 1 THEN <<u>>
    ELSE LET step == MergeStep(vocab, bpe_ranks, u)
         IN  IF step.merged THEN <<u>> \o MergeTrace(step.tokens) ELSE <<u>>

\* The words of the text encode was given that are not in vocab: the words
\* that take the merge loop, each from the tokens the cache holds for it.
LoopWords == {w \in {split(arg)[k] : k \in 1..Len(split(arg))} : w \notin DOMAIN vocab}

\* C12: for a word that is not in vocab, each iteration of encode's merge
\* loop merges one occurrence, the leftmost of the adjacent pair of lowest
\* rank; the loop stops when no adjacent pair has a rank or the winner's
\* concatenation is not in vocab, after at most (number of units - 1)
\* merges; the ids encode returns for a one-word text are those of the
\* tokens the loop ends with.
C12_MergesLeftmostLowestRank ==
    op = "encode" =>
        \A w \in LoopWords :
            LET trace == MergeTrace(cache[w])
                final == MergeLoop(vocab, bpe_ranks, cache[w], 0).tokens
            IN  /\ \A n \in 1..Len(trace) : Len(trace[n]) > 1 => IterationAsClaimed(trace[n])
                /\ \A n \in 1..(Len(trace) - 1) : Len(trace[n + 1]) = Len(trace[n]) - 1
                /\ Len(trace) - 1 <= Len(cache[w]) - 1
                /\ final = MergeStep(vocab, bpe_ranks, trace[Len(trace)]).tokens
                /\ split(arg) = <<w>> => ret = TokenIds(vocab, final)

\* encode has run on a one-word text whose loop merged twice or more, in an
\* iteration where the pair of lowest rank was not the first pair with a
\* rank, or occurred twice.
C12_Witness ==
    /\ op = "encode"
    /\ Len(split(arg)) = 1
    /\ \E w \in LoopWords :
           LET trace == MergeTrace(cache[w])
           IN  /\ Len(trace) >= 3
               /\ \E k \in RankedAt(trace[1]) :
                      k # Winner(trace[1])
                      /\ (k < Winner(trace[1])
                          \/ PairsOf(trace[1])[k] = PairsOf(trace[1])[Winner(trace[1])])
               /\ ret = TokenIds(vocab, trace[Len(trace)])

====
